---- MODULE Spec2Model ----
\* Copy-on-write simulation core of c10: the generation counter
\* (cow::detail::ShadowStorageImpl), the ShadowStorageMixin capability gate and
\* the Storage facade that forwards to its backing StorageImpl.
EXTENDS Integers, FiniteSets, Sequences, TLC

\* ------------------------------------------------------------------ bounds
\* Width of the generation counter. The code uses std::uint64_t; the model
\* keeps the modular arithmetic and scales the width down.
GenerationBits == 2
\* Number of ShadowStorage objects besides the storage's own live counter.
NumShadows == 1
\* Number of concurrent execution contexts sharing one counter.
NumContexts == 2
\* Length of the call sequence driven on the twin counters.
MaxCalls == 6
MaxRequests == 3
NumTensors == 2
MaxList == 1
MaxInt == 1
\* Number of ShadowStorageMixin instances and of intrusive_ptr handles outside them.
NumMixins == 2
NumHandles == 2

\* --------------------------------------------------------------- constants
Modulus == 2 ^ GenerationBits
\* std::numeric_limits<std::uint64_t>::max()
UINT64_MAX == Modulus - 1
Generations == 0 .. UINT64_MAX
\* The initial generations of a ShadowStorage created late in a lineage.
LateGenerations == {UINT64_MAX - 1, UINT64_MAX}

\* nullptr
NULL == 0
\* "no value was returned" (the call did not return)
NoValue == 0 - 1

Shadows == 1 .. NumShadows
\* The counter owned by the Storage's backing implementation (its live generation).
Live == NumShadows + 1
\* One more ShadowStorage object, so that mixins built from two distinct
\* objects exist at every bound.
Spare == NumShadows + 2
Counters == 1 .. (NumShadows + 2)
\* The ShadowStorage objects a mixin can be built from.
Objects == Shadows \cup {Spare}
Contexts == 1 .. NumContexts
Mixins == 1 .. NumMixins
Handles == 1 .. NumHandles
\* The ShadowStorage the execution contexts share.
Shared == CHOOSE c \in Shadows : \A d \in Shadows : c <= d

\* The one backing implementation a Storage can refer to.
Impl == 1
\* CopyOnWriteSimulator* arguments and handles (NULL or one simulator).
Simulators == {NULL, 1}
\* at::Tensor arguments, their contents, Tensor[] and int arguments.
Tensors == 1 .. NumTensors
Elements == 0 .. 1
TensorLists == UNION {[1 .. n -> Tensors] : n \in 0 .. MaxList}
Ints == 0 .. MaxInt

\* The requests counter stops counting past MaxRequests.
Uncounted == MaxRequests + 1

VARIABLES
  state,          \* Counters -> "unborn" | "alive": lifecycle of each counter object
  generation_,    \* Counters -> the field generation_
  initial,        \* Counters -> the constructor argument (history)
  bumps,          \* Counters -> number of bump_generation() calls that returned (history)
  snapshot,       \* Shadows  -> constructed with the live generation of that moment (history)
  storage_impl_,  \* Storage::storage_impl_ : NULL or Impl
  op,             \* the last operation: its name, target, return value, delegation
  fatal,          \* "none", or the internal assert that ended the execution
  pc,             \* Contexts -> where each execution context is in its bump_generation() call
  seen,           \* Contexts -> the value of generation_ the context's assert read
  tret,           \* Contexts -> the value the context's bump_generation() returned
  observed,       \* Contexts -> the value the context's last generation() returned
  twin,           \* BOOLEAN (the intrusive parameter) -> one counter of each instantiation
  calls,          \* number of calls made on the twin counters
  instrument,     \* the build defines PYTORCH_INSTRUMENT_COW_TENSOR (tracking enabled)
  refcount,       \* Counters -> the intrusive reference count of the object
  mixin,          \* Mixins -> lifecycle, the member shadow_storage_, the reference supplied
  handle,         \* Handles -> an intrusive_ptr<ShadowStorage> held outside the mixins
  requests,       \* number of maybe_bump_copy_on_write_generation calls on the Storage (history)
  use_cuda,       \* the build defines USE_CUDA
  tensor,         \* Tensors -> the contents of each tensor
  call            \* the last call of a registered c10d operation and how it ended

counterVars == <<state, generation_, initial, bumps, snapshot>>
contextVars == <<pc, seen, tret, observed>>
twinVars == <<twin, calls>>
mixinVars == <<instrument, refcount, mixin, handle>>
shuffleVars == <<use_cuda, tensor, call>>
vars == <<counterVars, storage_impl_, requests, shuffleVars, op, fatal, contextVars, twinVars, mixinVars>>

\* -------------------------------------------------- ShadowStorageImpl (code)
\* Faulty variant: the overflow assert compiled out (a debug-only assert).
bump_assert_debug_only(v) == TRUE

\* TORCH_INTERNAL_ASSERT(generation_ != std::numeric_limits<std::uint64_t>::max())
bump_assert(v) == v # UINT64_MAX

\* ++generation_ on a std::uint64_t: pre-increment, modulo 2^width
\* Faulty variant: the increment adds two.
PreIncrement_by_two(v) == (v + 2) % Modulus

PreIncrement(v) == (v + 1) % Modulus

\* ShadowStorageImpl<intrusive>::ShadowStorageImpl(generation): generation_(generation)
ShadowStorageImpl(intrusive, g) == g

\* ShadowStorageImpl<intrusive>::generation(): return generation_
generation(intrusive, v) == v

\* Faulty variant: return generation_++ (the value before the increment).
bump_generation_postincrement(intrusive, v) ==
  IF bump_assert(v)
    THEN [failed |-> FALSE, generation_ |-> PreIncrement(v), ret |-> v]
    ELSE [failed |-> TRUE, generation_ |-> v, ret |-> NoValue]

\* Faulty variant: the exclusive instantiation specialised without the overflow assert.
bump_generation_exclusive_unchecked(intrusive, v) ==
  IF intrusive /\ ~bump_assert(v)
    THEN [failed |-> TRUE, generation_ |-> v, ret |-> NoValue]
    ELSE [failed |-> FALSE, generation_ |-> PreIncrement(v), ret |-> PreIncrement(v)]

\* Faulty variant: the increment is evaluated before the assert.
bump_generation_increment_first(intrusive, v) ==
  IF bump_assert(v)
    THEN [failed |-> FALSE, generation_ |-> PreIncrement(v), ret |-> PreIncrement(v)]
    ELSE [failed |-> TRUE, generation_ |-> PreIncrement(v), ret |-> NoValue]

\* ShadowStorageImpl<intrusive>::bump_generation(): assert, then return ++generation_
bump_generation(intrusive, v) ==
  IF bump_assert(v)
    THEN [failed |-> FALSE, generation_ |-> PreIncrement(v), ret |-> PreIncrement(v)]
    ELSE [failed |-> TRUE, generation_ |-> v, ret |-> NoValue]

\* ------------------------------------------------------------ Storage (code)
\* Faulty variant: the null check of the backing implementation dropped.
storage_assert_dropped(p) == TRUE

\* TORCH_INTERNAL_ASSERT(storage_impl_ != nullptr)
storage_assert(p) == p # NULL

\* ---------------------------------------------------------------- actions
\* The execution contexts and the twin counters before anything ran on them.
ContextsIdle ==
  /\ pc = [t \in Contexts |-> "idle"]
  /\ seen = [t \in Contexts |-> NoValue]
  /\ tret = [t \in Contexts |-> NoValue]
  /\ observed = [t \in Contexts |-> NoValue]

TwinCounter(intrusive, g) ==
  [generation_ |-> ShadowStorageImpl(intrusive, g), returns |-> <<>>, failed |-> FALSE]

TwinIdle ==
  /\ twin = [intrusive \in BOOLEAN |-> TwinCounter(intrusive, 0)]
  /\ calls = 0

NoHandle == [ptr |-> NULL, via |-> "none"]

\* No mixin constructed, no handle held.
MixinIdle ==
  /\ refcount = [c \in Counters |-> 0]
  /\ mixin = [m \in Mixins |-> [life |-> "unborn", shadow_storage_ |-> NULL, supplied |-> NULL]]
  /\ handle = [h \in Handles |-> NoHandle]

\* One invocation of an entry point of the backing implementation: the entry,
\* the simulator it received and the result it produced.
Invocation(entry, simulator, result) ==
  [entry |-> entry, simulator |-> simulator, result |-> result]

\* The last call: its name, its target, what it returned and the invocations
\* of the backing implementation it made.
\* One more maybe_bump_copy_on_write_generation call was made on the Storage.
CountRequest(n) == IF n < Uncounted THEN n + 1 ELSE n

\* No registered c10d operation has been called.
NoCall == [name |-> "none", args |-> <<>>, outcome |-> "none", message |-> "", forwarded |-> <<>>]

\* A build without CUDA, no c10d operation called.
ShuffleIdle ==
  /\ use_cuda = FALSE
  /\ tensor = [t \in Tensors |-> 0]
  /\ call = NoCall

\* The calls on the Storage are not being counted.
RequestsIdle == requests = Uncounted

Op(name, target, ret, invoked) ==
  [name |-> name, target |-> target, ret |-> ret,
   delegated |-> (invoked # <<>>), invoked |-> invoked]

\* A ShadowStorage is constructed with an explicit initial generation.
construct(c, g) ==
  /\ fatal = "none"
  /\ state[c] = "unborn"
  /\ state' = [state EXCEPT ![c] = "alive"]
  /\ generation_' = [generation_ EXCEPT ![c] = ShadowStorageImpl(TRUE, g)]
  /\ initial' = [initial EXCEPT ![c] = g]
  /\ snapshot' = [snapshot EXCEPT ![c] = (state[Live] = "alive" /\ g = generation_[Live])]
  /\ op' = Op("ShadowStorageImpl", c, NoValue, <<>>)
  /\ UNCHANGED <<bumps, storage_impl_, requests, shuffleVars, fatal>>
  /\ UNCHANGED <<contextVars, twinVars, mixinVars>>

\* Faulty variant: generation() carries bump_generation()'s overflow assert.
call_generation_asserting(c) ==
  /\ fatal = "none"
  /\ state[c] = "alive"
  /\ fatal' = IF bump_assert(generation_[c]) THEN "none" ELSE "generation_overflow"
  /\ op' = Op("generation", c,
              IF bump_assert(generation_[c]) THEN generation(TRUE, generation_[c]) ELSE NoValue,
              <<>>)
  /\ UNCHANGED <<state, generation_, initial, bumps, snapshot, storage_impl_, requests, shuffleVars>>
  /\ UNCHANGED <<contextVars, twinVars, mixinVars>>

call_generation(c) ==
  /\ fatal = "none"
  /\ state[c] = "alive"
  /\ op' = Op("generation", c, generation(TRUE, generation_[c]), <<>>)
  /\ UNCHANGED <<state, generation_, initial, bumps, snapshot, storage_impl_, requests, shuffleVars, fatal>>
  /\ UNCHANGED <<contextVars, twinVars, mixinVars>>

\* Faulty variant: generation_ declared static, one field shared by every counter object.
BumpEffect_static_field(c, name, delegated) ==
  LET r == bump_generation(TRUE, generation_[c]) IN
  /\ generation_' = [d \in Counters |->
                       IF state[d] = "alive" /\ ~r.failed
                         THEN PreIncrement(generation_[d]) ELSE generation_[d]]
  /\ bumps' = [bumps EXCEPT ![c] = IF r.failed THEN @ ELSE @ + 1]
  /\ fatal' = IF r.failed THEN "generation_overflow" ELSE "none"
  /\ op' = Op(name, c, r.ret, delegated)

\* The effect of one bump_generation() call on counter c.
BumpEffect(c, name, delegated) ==
  LET r == bump_generation(TRUE, generation_[c]) IN
  /\ generation_' = [generation_ EXCEPT ![c] = r.generation_]
  /\ bumps' = [bumps EXCEPT ![c] = IF r.failed THEN @ ELSE @ + 1]
  /\ fatal' = IF r.failed THEN "generation_overflow" ELSE "none"
  /\ op' = Op(name, c, r.ret, delegated)

call_bump_generation(c) ==
  /\ fatal = "none"
  /\ state[c] = "alive"
  /\ BumpEffect(c, "bump_generation", <<>>)
  /\ UNCHANGED <<state, initial, snapshot, storage_impl_, requests, shuffleVars>>
  /\ UNCHANGED <<contextVars, twinVars, mixinVars>>

\* StorageImpl::simulate_copy_on_write: the backing implementation's entry
\* point; its result is whatever handle the implementation produces.
StorageImpl_simulate_copy_on_write(sim, result) ==
  Invocation("StorageImpl::simulate_copy_on_write", sim, result)

\* StorageImpl::maybe_bump_copy_on_write_generation: the simulator's policy
\* decides whether this write bumps the live generation.
StorageImpl_maybe_bump_copy_on_write_generation(sim, decide) ==
  LET invocation ==
        Invocation("StorageImpl::maybe_bump_copy_on_write_generation", sim, NoValue) IN
  IF decide
    THEN BumpEffect(Live, "maybe_bump_copy_on_write_generation", <<invocation>>)
    ELSE /\ op' = Op("maybe_bump_copy_on_write_generation", Live, NoValue, <<invocation>>)
         /\ UNCHANGED <<generation_, bumps, fatal>>

\* The internal assert of a Storage operation failed: nothing was delegated.
StorageAssertFailed(name) ==
  /\ fatal' = "storage_impl_null"
  /\ op' = Op(name, NULL, NoValue, <<>>)
  /\ UNCHANGED <<generation_, bumps>>

\* Faulty variant: the wrapper drops the handle the implementation returned.
Storage_simulate_copy_on_write_drops_result(sim) ==
  /\ fatal = "none"
  /\ IF storage_assert(storage_impl_)
       THEN \E result \in Simulators :
              LET invocation == StorageImpl_simulate_copy_on_write(sim, result) IN
              /\ op' = Op("simulate_copy_on_write", Live, NULL, <<invocation>>)
              /\ UNCHANGED <<generation_, bumps, fatal>>
       ELSE StorageAssertFailed("simulate_copy_on_write")
  /\ UNCHANGED <<state, initial, snapshot, storage_impl_, requests, shuffleVars>>
  /\ UNCHANGED <<contextVars, twinVars, mixinVars>>

Storage_simulate_copy_on_write(sim) ==
  /\ fatal = "none"
  /\ IF storage_assert(storage_impl_)
       THEN \E result \in Simulators :
              LET invocation == StorageImpl_simulate_copy_on_write(sim, result) IN
              /\ op' = Op("simulate_copy_on_write", Live, invocation.result, <<invocation>>)
              /\ UNCHANGED <<generation_, bumps, fatal>>
       ELSE StorageAssertFailed("simulate_copy_on_write")
  /\ UNCHANGED <<state, initial, snapshot, storage_impl_, requests, shuffleVars>>
  /\ UNCHANGED <<contextVars, twinVars, mixinVars>>

\* Faulty variant: the wrapper hands the implementation a null simulator.
Storage_maybe_bump_copy_on_write_generation_null_simulator(sim) ==
  /\ fatal = "none"
  /\ IF storage_assert(storage_impl_)
       THEN \E decide \in BOOLEAN :
              StorageImpl_maybe_bump_copy_on_write_generation(NULL, decide)
       ELSE StorageAssertFailed("maybe_bump_copy_on_write_generation")
  /\ UNCHANGED <<state, initial, snapshot, storage_impl_>>
  /\ requests' = CountRequest(requests)
  /\ UNCHANGED shuffleVars
  /\ UNCHANGED <<contextVars, twinVars, mixinVars>>

Storage_maybe_bump_copy_on_write_generation(sim) ==
  /\ fatal = "none"
  /\ IF storage_assert(storage_impl_)
       THEN \E decide \in BOOLEAN :
              StorageImpl_maybe_bump_copy_on_write_generation(sim, decide)
       ELSE StorageAssertFailed("maybe_bump_copy_on_write_generation")
  /\ UNCHANGED <<state, initial, snapshot, storage_impl_>>
  /\ requests' = CountRequest(requests)
  /\ UNCHANGED shuffleVars
  /\ UNCHANGED <<contextVars, twinVars, mixinVars>>

\* ------------------------------------------------------------ specification
\* A Storage whose backing implementation is present (with its live counter
\* at any generation) or absent; no ShadowStorage constructed yet.
Init ==
  /\ storage_impl_ \in {NULL, Impl}
  /\ \E g \in Generations :
       /\ generation_ = [c \in Counters |-> IF c = Live /\ storage_impl_ # NULL THEN g ELSE 0]
       /\ initial = generation_
  /\ state = [c \in Counters |-> IF c = Live /\ storage_impl_ # NULL THEN "alive" ELSE "unborn"]
  /\ bumps = [c \in Counters |-> 0]
  /\ snapshot = [c \in Shadows |-> FALSE]
  /\ op = Op("init", NULL, NoValue, <<>>)
  /\ fatal = "none"
  /\ ContextsIdle
  /\ TwinIdle
  /\ instrument = FALSE
  /\ MixinIdle
  /\ RequestsIdle
  /\ ShuffleIdle

Next ==
  \/ \E c \in Shadows, g \in Generations : construct(c, g)
  \/ \E c \in Shadows : call_generation(c)
  \/ \E c \in Shadows : call_bump_generation(c)
  \/ \E sim \in Simulators : Storage_simulate_copy_on_write(sim)
  \/ \E sim \in Simulators : Storage_maybe_bump_copy_on_write_generation(sim)

Spec == Init /\ [][Next]_vars

\* ------------------------------------------- concurrent execution contexts
\* Each context calls bump_generation() once on the shared counter, and
\* generation() whenever it is not inside its bump. bump_generation() is two
\* accesses of generation_: the assert reads it, the pre-increment updates it.

\* The pre-increment of generation_ as one indivisible read-modify-write.
AtomicIncrement(c) ==
  /\ generation_' = [generation_ EXCEPT ![c] = PreIncrement(@)]
  /\ bumps' = [bumps EXCEPT ![c] = @ + 1]

\* TORCH_INTERNAL_ASSERT(generation_ != max) in context t
ctx_bump_assert(t) ==
  /\ fatal = "none"
  /\ pc[t] = "idle"
  /\ seen' = [seen EXCEPT ![t] = generation_[Shared]]
  /\ IF bump_assert(generation_[Shared])
       THEN pc' = [pc EXCEPT ![t] = "asserted"] /\ UNCHANGED fatal
       ELSE fatal' = "generation_overflow" /\ UNCHANGED pc
  /\ UNCHANGED <<counterVars, storage_impl_, requests, shuffleVars, op, tret, observed, twinVars, mixinVars>>

\* Faulty variant: the increment stores the value the assert read, plus one.
ctx_bump_increment_reuses_load(t) ==
  /\ fatal = "none"
  /\ pc[t] = "asserted"
  /\ generation_' = [generation_ EXCEPT ![Shared] = PreIncrement(seen[t])]
  /\ bumps' = [bumps EXCEPT ![Shared] = @ + 1]
  /\ tret' = [tret EXCEPT ![t] = generation_'[Shared]]
  /\ pc' = [pc EXCEPT ![t] = "returned"]
  /\ UNCHANGED <<state, initial, snapshot, storage_impl_, requests, shuffleVars, op, fatal, seen, observed, twinVars, mixinVars>>

\* return ++generation_ in context t
ctx_bump_increment(t) ==
  /\ fatal = "none"
  /\ pc[t] = "asserted"
  /\ AtomicIncrement(Shared)
  /\ tret' = [tret EXCEPT ![t] = generation_'[Shared]]
  /\ pc' = [pc EXCEPT ![t] = "returned"]
  /\ UNCHANGED <<state, initial, snapshot, storage_impl_, requests, shuffleVars, op, fatal, seen, observed, twinVars, mixinVars>>

\* generation() in context t
ctx_generation(t) ==
  /\ fatal = "none"
  /\ pc[t] # "asserted"
  /\ observed' = [observed EXCEPT ![t] = generation(TRUE, generation_[Shared])]
  /\ observed'[t] # observed[t]
  /\ UNCHANGED <<counterVars, storage_impl_, requests, shuffleVars, op, fatal, pc, seen, tret, twinVars, mixinVars>>

\* One shared counter, constructed with any generation; no Storage involved.
InitConcurrent ==
  /\ storage_impl_ = NULL
  /\ \E g \in Generations :
       /\ generation_ = [c \in Counters |-> IF c = Shared THEN ShadowStorageImpl(TRUE, g) ELSE 0]
       /\ initial = generation_
  /\ state = [c \in Counters |-> IF c = Shared THEN "alive" ELSE "unborn"]
  /\ bumps = [c \in Counters |-> 0]
  /\ snapshot = [c \in Shadows |-> FALSE]
  /\ op = Op("init", NULL, NoValue, <<>>)
  /\ fatal = "none"
  /\ ContextsIdle
  /\ TwinIdle
  /\ instrument = FALSE
  /\ MixinIdle
  /\ RequestsIdle
  /\ ShuffleIdle

NextConcurrent ==
  \/ \E t \in Contexts : ctx_bump_assert(t)
  \/ \E t \in Contexts : ctx_bump_increment(t)
  \/ \E t \in Contexts : ctx_generation(t)

SpecConcurrent == InitConcurrent /\ [][NextConcurrent]_vars

\* ------------------------------------------------- the two instantiations
\* ShadowStorageImpl<true> and ShadowStorageImpl<false>, constructed with the
\* same generation and driven by the same sequence of calls; each keeps the
\* sequence of values its calls returned. A counter that failed its assert
\* takes no further call.
TwinGeneration(intrusive, c) ==
  IF c.failed THEN c
  ELSE [c EXCEPT !.returns = Append(@, generation(intrusive, c.generation_))]

TwinBump(intrusive, c) ==
  IF c.failed THEN c
  ELSE LET r == bump_generation(intrusive, c.generation_) IN
       [generation_ |-> r.generation_,
        returns |-> IF r.failed THEN c.returns ELSE Append(c.returns, r.ret),
        failed |-> r.failed]

twin_generation ==
  /\ calls < MaxCalls
  /\ \E intrusive \in BOOLEAN : ~twin[intrusive].failed
  /\ twin' = [intrusive \in BOOLEAN |-> TwinGeneration(intrusive, twin[intrusive])]
  /\ calls' = calls + 1
  /\ UNCHANGED <<counterVars, storage_impl_, requests, shuffleVars, op, fatal, contextVars, mixinVars>>

twin_bump_generation ==
  /\ calls < MaxCalls
  /\ \E intrusive \in BOOLEAN : ~twin[intrusive].failed
  /\ twin' = [intrusive \in BOOLEAN |-> TwinBump(intrusive, twin[intrusive])]
  /\ calls' = calls + 1
  /\ UNCHANGED <<counterVars, storage_impl_, requests, shuffleVars, op, fatal, contextVars, mixinVars>>

InitPolicy ==
  /\ storage_impl_ = NULL
  /\ generation_ = [c \in Counters |-> 0]
  /\ initial = generation_
  /\ state = [c \in Counters |-> "unborn"]
  /\ bumps = [c \in Counters |-> 0]
  /\ snapshot = [c \in Shadows |-> FALSE]
  /\ op = Op("init", NULL, NoValue, <<>>)
  /\ fatal = "none"
  /\ instrument = FALSE
  /\ MixinIdle
  /\ RequestsIdle
  /\ ShuffleIdle
  /\ ContextsIdle
  /\ \E g \in Generations : twin = [intrusive \in BOOLEAN |-> TwinCounter(intrusive, g)]
  /\ calls = 0

NextPolicy ==
  \/ twin_generation
  \/ twin_bump_generation

SpecPolicy == InitPolicy /\ [][NextPolicy]_vars

\* ------------------------------------------------------ ShadowStorageMixin
\* Faulty variant: the capability gate always taken as defined.
InstrumentCowTensor_always == TRUE

\* #if defined(PYTORCH_INSTRUMENT_COW_TENSOR)
InstrumentCowTensor == instrument

\* intrusive_ptr: taking and giving up one share of the object p refers to;
\* the object is destroyed when its count reaches zero.
Retain(rc, p) == IF p = NULL THEN rc ELSE [rc EXCEPT ![p] = @ + 1]
Release(rc, p) == IF p = NULL THEN rc ELSE [rc EXCEPT ![p] = @ - 1]
Reap(st, rc) ==
  [c \in Counters |-> IF st[c] = "alive" /\ c \in Objects /\ rc[c] <= 0
                        THEN "destroyed" ELSE st[c]]

\* Faulty variant: the member initializer left out.
MixinMember_uninitialized(p) == NULL

\* Faulty variant: the member initializer outside the #if, kept in every build.
MixinMember_ungated(p) == p

\* ShadowStorageMixin::ShadowStorageMixin: shadow_storage_(std::move(shadow_storage))
\* under the gate; without it the mixin has no member.
MixinMember(p) == IF InstrumentCowTensor THEN p ELSE NULL

\* ShadowStorageMixin::shadow_storage(): shadow_storage_.get(), or nullptr
shadow_storage(m) ==
  IF InstrumentCowTensor THEN mixin[m].shadow_storage_ ELSE NULL

\* Faulty variant: the accessor takes the #else branch in every build.
shadow_storage_ref_always_null(m) == NULL

\* ShadowStorageMixin::shadow_storage_ref(): a copy of shadow_storage_, or nullptr
shadow_storage_ref(m) ==
  IF InstrumentCowTensor THEN mixin[m].shadow_storage_ ELSE NULL

\* Objects, mixins and handles are interchangeable: a new one takes the
\* lowest index not in use.
Lowest(S) == CHOOSE x \in S : \A y \in S : x <= y
FreshShadow(c) == state[c] = "unborn" /\ c = Lowest({d \in Objects : state[d] = "unborn"})
FreshMixin(m) == mixin[m].life = "unborn" /\ m = Lowest({n \in Mixins : mixin[n].life = "unborn"})
FreeHandle(h) == handle[h] = NoHandle /\ h = Lowest({i \in Handles : handle[i] = NoHandle})

\* make_intrusive<ShadowStorage>(g): a new object, its one share held by handle h.
make_shadow_storage(c, g, h) ==
  /\ fatal = "none"
  /\ FreshShadow(c)
  /\ FreeHandle(h)
  /\ state' = [state EXCEPT ![c] = "alive"]
  /\ generation_' = [generation_ EXCEPT ![c] = ShadowStorageImpl(TRUE, g)]
  /\ initial' = [initial EXCEPT ![c] = g]
  /\ refcount' = [refcount EXCEPT ![c] = 1]
  /\ handle' = [handle EXCEPT ![h] = [ptr |-> c, via |-> "make_intrusive"]]
  /\ op' = Op("ShadowStorageImpl", c, NoValue, <<>>)
  /\ UNCHANGED <<bumps, snapshot, storage_impl_, requests, shuffleVars, fatal, contextVars, twinVars, instrument, mixin>>

\* ShadowStorageMixin(intrusive_ptr<ShadowStorage> shadow_storage): the
\* by-value parameter is a copy of the caller's handle h, or is moved out of
\* it; the member takes it over under the gate, otherwise the parameter gives
\* up its share when the constructor returns.
ShadowStorageMixin_ctor(m, h, moved) ==
  /\ fatal = "none"
  /\ FreshMixin(m)
  /\ LET p == handle[h].ptr
         passed == IF moved THEN refcount ELSE Retain(refcount, p)
         member == MixinMember(p)
         after == IF member = p THEN passed ELSE Release(passed, p)
     IN /\ mixin' = [mixin EXCEPT ![m] =
                       [life |-> "live", shadow_storage_ |-> member, supplied |-> p]]
        /\ handle' = IF moved THEN [handle EXCEPT ![h] = NoHandle] ELSE handle
        /\ refcount' = after
        /\ state' = Reap(state, after)
        /\ op' = Op("ShadowStorageMixin", m, NoValue, <<>>)
  /\ UNCHANGED <<generation_, initial, bumps, snapshot, storage_impl_, requests, shuffleVars, fatal>>
  /\ UNCHANGED <<contextVars, twinVars, instrument>>

\* ~ShadowStorageMixin: the member gives up its share.
ShadowStorageMixin_dtor(m) ==
  /\ fatal = "none"
  /\ mixin[m].life = "live"
  /\ mixin' = [mixin EXCEPT ![m] = [life |-> "destroyed", shadow_storage_ |-> NULL, supplied |-> NULL]]
  /\ refcount' = Release(refcount, mixin[m].shadow_storage_)
  /\ state' = Reap(state, refcount')
  /\ op' = Op("~ShadowStorageMixin", m, NoValue, <<>>)
  /\ UNCHANGED <<generation_, initial, bumps, snapshot, storage_impl_, requests, shuffleVars, fatal>>
  /\ UNCHANGED <<contextVars, twinVars, instrument, handle>>

call_shadow_storage(m) ==
  /\ fatal = "none"
  /\ mixin[m].life = "live"
  /\ op' = Op("shadow_storage", m, shadow_storage(m), <<>>)
  /\ UNCHANGED <<counterVars, storage_impl_, requests, shuffleVars, fatal, contextVars, twinVars, mixinVars>>

\* Faulty variant: the handle is built from the raw pointer without taking a share.
call_shadow_storage_ref_reclaims(m, h) ==
  /\ fatal = "none"
  /\ mixin[m].life = "live"
  /\ FreeHandle(h)
  /\ handle' = [handle EXCEPT ![h] = [ptr |-> shadow_storage_ref(m), via |-> "shadow_storage_ref"]]
  /\ op' = Op("shadow_storage_ref", m, shadow_storage_ref(m), <<>>)
  /\ UNCHANGED <<counterVars, storage_impl_, requests, shuffleVars, fatal, contextVars, twinVars, instrument, mixin, refcount>>

\* The caller keeps the intrusive_ptr shadow_storage_ref() returns in handle h.
call_shadow_storage_ref(m, h) ==
  /\ fatal = "none"
  /\ mixin[m].life = "live"
  /\ FreeHandle(h)
  /\ handle' = [handle EXCEPT ![h] = [ptr |-> shadow_storage_ref(m), via |-> "shadow_storage_ref"]]
  /\ refcount' = Retain(refcount, shadow_storage_ref(m))
  /\ op' = Op("shadow_storage_ref", m, shadow_storage_ref(m), <<>>)
  /\ UNCHANGED <<counterVars, storage_impl_, requests, shuffleVars, fatal, contextVars, twinVars, instrument, mixin>>

\* A holder outside the mixins drops its handle.
handle_reset(h) ==
  /\ fatal = "none"
  /\ handle[h] # NoHandle
  /\ handle' = [handle EXCEPT ![h] = NoHandle]
  /\ refcount' = Release(refcount, handle[h].ptr)
  /\ state' = Reap(state, refcount')
  /\ op' = Op("reset", handle[h].ptr, NoValue, <<>>)
  /\ UNCHANGED <<generation_, initial, bumps, snapshot, storage_impl_, requests, shuffleVars, fatal>>
  /\ UNCHANGED <<contextVars, twinVars, instrument, mixin>>

\* generation() through a held handle.
handle_generation(h) ==
  /\ fatal = "none"
  /\ handle[h].ptr # NULL
  /\ op' = Op("generation", handle[h].ptr, generation(TRUE, generation_[handle[h].ptr]), <<>>)
  /\ UNCHANGED <<counterVars, storage_impl_, requests, shuffleVars, fatal, contextVars, twinVars, mixinVars>>

\* shadow_storage()->bump_generation() through a mixin.
mixin_bump_generation(m) ==
  /\ fatal = "none"
  /\ mixin[m].life = "live"
  /\ shadow_storage(m) # NULL
  /\ BumpEffect(shadow_storage(m), "bump_generation", <<>>)
  /\ UNCHANGED <<state, initial, snapshot, storage_impl_, requests, shuffleVars, contextVars, twinVars, mixinVars>>

\* Either build; nothing constructed yet.
InitMixin ==
  /\ instrument \in BOOLEAN
  /\ storage_impl_ = NULL
  /\ generation_ = [c \in Counters |-> 0]
  /\ initial = generation_
  /\ state = [c \in Counters |-> "unborn"]
  /\ bumps = [c \in Counters |-> 0]
  /\ snapshot = [c \in Shadows |-> FALSE]
  /\ op = Op("init", NULL, NoValue, <<>>)
  /\ fatal = "none"
  /\ ContextsIdle
  /\ TwinIdle
  /\ MixinIdle
  /\ RequestsIdle
  /\ ShuffleIdle

NextMixin ==
  \/ \E c \in Shadows, g \in LateGenerations, h \in Handles : make_shadow_storage(c, g, h)
  \/ \E m \in Mixins, h \in Handles, moved \in BOOLEAN : ShadowStorageMixin_ctor(m, h, moved)
  \/ \E m \in Mixins : ShadowStorageMixin_dtor(m)
  \/ \E m \in Mixins : call_shadow_storage(m)
  \/ \E m \in Mixins, h \in Handles : call_shadow_storage_ref(m, h)
  \/ \E h \in Handles : handle_reset(h)
  \/ \E h \in Handles : handle_generation(h)
  \/ \E m \in Mixins : mixin_bump_generation(m)

SpecMixin == InitMixin /\ [][NextMixin]_vars

\* --------------------------------------------- mixins sharing one counter
\* shadow_storage()->generation() through a mixin.
mixin_generation(m) ==
  /\ fatal = "none"
  /\ mixin[m].life = "live"
  /\ shadow_storage(m) # NULL
  /\ op' = Op("generation", shadow_storage(m),
              generation(TRUE, generation_[shadow_storage(m)]), <<>>)
  /\ UNCHANGED <<counterVars, storage_impl_, requests, shuffleVars, fatal, contextVars, twinVars, mixinVars>>

\* Mixins are built from up to NumShadows + 1 ShadowStorage objects and then
\* queried and bumped; no mixin is destroyed and no handle dropped.
NextAlias ==
  \/ \E c \in Objects, g \in LateGenerations, h \in Handles : make_shadow_storage(c, g, h)
  \/ \E m \in Mixins, h \in Handles, moved \in BOOLEAN : ShadowStorageMixin_ctor(m, h, moved)
  \/ \E m \in Mixins : call_shadow_storage(m)
  \/ \E m \in Mixins : mixin_generation(m)
  \/ \E m \in Mixins : mixin_bump_generation(m)

SpecAlias == InitMixin /\ [][NextAlias]_vars

\* ------------------------------------------- counted calls on one Storage
\* A Storage whose backing implementation is present, its live counter at any
\* generation G0; the maybe_bump_copy_on_write_generation calls are counted.
InitStorage ==
  /\ storage_impl_ = Impl
  /\ \E g \in Generations :
       /\ generation_ = [c \in Counters |-> IF c = Live THEN g ELSE 0]
       /\ initial = generation_
  /\ state = [c \in Counters |-> IF c = Live THEN "alive" ELSE "unborn"]
  /\ bumps = [c \in Counters |-> 0]
  /\ snapshot = [c \in Shadows |-> FALSE]
  /\ op = Op("init", NULL, NoValue, <<>>)
  /\ fatal = "none"
  /\ ContextsIdle
  /\ TwinIdle
  /\ instrument = FALSE
  /\ MixinIdle
  /\ requests = 0
  /\ ShuffleIdle

NextStorage ==
  \/ \E sim \in Simulators : Storage_simulate_copy_on_write(sim)
  \/ \E sim \in Simulators : requests < MaxRequests /\ Storage_maybe_bump_copy_on_write_generation(sim)

SpecStorage == InitStorage /\ [][NextStorage]_vars

\* ----------------------------------------------------- c10d shuffle ops
\* #ifdef USE_CUDA
UseCuda == use_cuda

\* How a call of a registered function ended: the exception it raised, if
\* any, and the calls it forwarded to the CUDA implementations.
Completed(forwarded) == [outcome |-> "returned", message |-> "", forwarded |-> forwarded]
Thrown(error, message) == [outcome |-> error, message |-> message, forwarded |-> <<>>]
Forward(fn, args) == [fn |-> fn, args |-> args]

\* Faulty variant: the CPU branch returns without raising.
fsdp_all_gather_copy_out_silent_on_cpu(params, all_gather_res, world_size) ==
  IF UseCuda
    THEN Completed(<<Forward("fsdpAllGatherCopyOut", <<params, all_gather_res, world_size>>)>>)
    ELSE Completed(<<>>)

\* ::fsdp_all_gather_copy_out
fsdp_all_gather_copy_out(params, all_gather_res, world_size) ==
  IF UseCuda
    THEN Completed(<<Forward("fsdpAllGatherCopyOut", <<params, all_gather_res, world_size>>)>>)
    ELSE Thrown("NotImplementedError", "Not implemented for CPU")

\* Faulty variant: dim and factor change places on the way to the CUDA implementation.
unflatten_cat_with_pad_swapped(tensors, dim, factor, out) ==
  IF UseCuda
    THEN Completed(<<Forward("unflatten_cat_with_pad_cuda", <<tensors, factor, dim, out>>)>>)
    ELSE Thrown("NotImplementedError", "Not implemented for CPU")

\* ::unflatten_cat_with_pad
unflatten_cat_with_pad(tensors, dim, factor, out) ==
  IF UseCuda
    THEN Completed(<<Forward("unflatten_cat_with_pad_cuda", <<tensors, dim, factor, out>>)>>)
    ELSE Thrown("NotImplementedError", "Not implemented for CPU")

\* The tensors a CUDA implementation may write: fsdpAllGatherCopyOut copies
\* the gathered result out into params, unflatten_cat_with_pad_cuda fills out.
Destinations(forward) ==
  IF forward.fn = "fsdpAllGatherCopyOut"
    THEN {forward.args[1][i] : i \in DOMAIN forward.args[1]}
    ELSE {forward.args[4]}

\* The contents of the tensors once the forwarded calls have run: a CUDA
\* implementation leaves any values in its destinations and nothing elsewhere.
CudaWrites(forwarded) ==
  LET written == UNION {Destinations(forwarded[i]) : i \in DOMAIN forwarded} IN
  {t \in [Tensors -> Elements] : \A x \in Tensors \ written : t[x] = tensor[x]}

\* A call of a registered operation ran the function r is the outcome of.
Dispatch(name, args, r) ==
  /\ call' = [name |-> name, args |-> args, outcome |-> r.outcome,
              message |-> r.message, forwarded |-> r.forwarded]
  /\ tensor' \in CudaWrites(r.forwarded)
  /\ UNCHANGED <<use_cuda, counterVars, storage_impl_, requests, op, fatal>>
  /\ UNCHANGED <<contextVars, twinVars, mixinVars>>

\* c10d::fsdp_all_gather_copy_out(Tensor[] params, Tensor all_gather_res, int world_size) -> ()
c10d_fsdp_all_gather_copy_out(params, all_gather_res, world_size) ==
  Dispatch("c10d::fsdp_all_gather_copy_out", <<params, all_gather_res, world_size>>,
           fsdp_all_gather_copy_out(params, all_gather_res, world_size))

\* c10d::unflatten_cat_with_pad(Tensor[] tensors, int dim, int factor, Tensor out) -> ()
c10d_unflatten_cat_with_pad(tensors, dim, factor, out) ==
  Dispatch("c10d::unflatten_cat_with_pad", <<tensors, dim, factor, out>>,
           unflatten_cat_with_pad(tensors, dim, factor, out))

\* Either build, tensors of any contents, no operation called yet.
InitShuffle ==
  /\ use_cuda \in BOOLEAN
  /\ tensor \in [Tensors -> Elements]
  /\ call = NoCall
  /\ storage_impl_ = NULL
  /\ generation_ = [c \in Counters |-> 0]
  /\ initial = generation_
  /\ state = [c \in Counters |-> "unborn"]
  /\ bumps = [c \in Counters |-> 0]
  /\ snapshot = [c \in Shadows |-> FALSE]
  /\ op = Op("init", NULL, NoValue, <<>>)
  /\ fatal = "none"
  /\ ContextsIdle
  /\ TwinIdle
  /\ instrument = FALSE
  /\ MixinIdle
  /\ RequestsIdle

NextShuffle ==
  \/ \E params \in TensorLists, all_gather_res \in Tensors, world_size \in Ints :
       c10d_fsdp_all_gather_copy_out(params, all_gather_res, world_size)
  \/ \E tensors \in TensorLists, dim \in Ints, factor \in Ints, out \in Tensors :
       c10d_unflatten_cat_with_pad(tensors, dim, factor, out)

SpecShuffle == InitShuffle /\ [][NextShuffle]_vars

\* ------------------------------------------------------------------ claims
BumpOps == {"bump_generation", "maybe_bump_copy_on_write_generation"}
StorageOps == {"simulate_copy_on_write", "maybe_bump_copy_on_write_generation"}

\* C1: N sequential bump_generation() calls on a counter constructed with G
\* (G + N <= max) leave generation() == G + N, and the i-th call returns G + i.
C1_SequentialBumps ==
  \A c \in Counters :
    state[c] = "alive" =>
      /\ initial[c] + bumps[c] <= UINT64_MAX
      /\ generation(TRUE, generation_[c]) = initial[c] + bumps[c]
      /\ (op.name \in BumpOps /\ op.target = c /\ fatal = "none" /\ op.ret # NoValue
            => op.ret = initial[c] + bumps[c])
      /\ (op.name = "bump_generation" /\ op.target = c /\ fatal = "none"
            => op.ret # NoValue)

C1_Witness ==
  \E c \in Shadows :
    /\ state[c] = "alive" /\ initial[c] = 1 /\ bumps[c] = 2
    /\ op.name = "bump_generation" /\ op.target = c /\ op.ret = 3

C4_ShadowsNeverSelfAdvance ==
  [][\A c \in Counters :
       /\ (state[c] = "alive" /\ generation_'[c] # generation_[c]
             => op'.name \in BumpOps /\ op'.target = c)
       /\ (c \in Shadows /\ state'[c] = "alive" /\ snapshot'[c] /\ bumps'[c] = 0
             => /\ generation_'[c] = initial'[c]
                /\ generation_'[c] <= generation_'[Live])]_vars

C4_Witness ==
  \E c \in Shadows :
    /\ state[c] = "alive" /\ snapshot[c] /\ bumps[c] = 0
    /\ initial[Live] = 0 /\ bumps[Live] = 3 /\ generation_[Live] = 3
    /\ generation_[c] = 0

\* C8: a Storage operation on a Storage whose backing implementation is null
\* fails its internal assert before delegating: the implementation's entry
\* point is not invoked and no generation changes.
C8_NullImplFailsBeforeDelegation ==
  [][storage_impl_ = NULL /\ op'.name \in StorageOps
       => /\ fatal' = "storage_impl_null"
          /\ ~op'.delegated
          /\ generation_' = generation_]_vars

C8_Witness ==
  /\ storage_impl_ = NULL
  /\ fatal = "storage_impl_null"
  /\ op.name = "maybe_bump_copy_on_write_generation"
  /\ ~op.delegated

Returned == {t \in Contexts : pc[t] = "returned"}

C9_MonotonicAcrossContexts ==
  [][/\ generation_'[Shared] \in {generation_[Shared], generation_[Shared] + 1}
     /\ \A t \in Contexts :
          /\ (tret'[t] # tret[t] =>
                \A u \in Contexts : tret'[t] >= tret[u] /\ tret'[t] >= observed[u])
          /\ (observed'[t] # observed[t] =>
                \A u \in Contexts : observed'[t] >= tret[u] /\ observed'[t] >= observed[u])
    ]_vars

\* C7: the shared and the exclusive instantiation, constructed with the same
\* value and driven by the same calls, return the same values at every step
\* and fail at the same step.
C7_PolicyIndependent ==
  /\ twin[TRUE].returns = twin[FALSE].returns
  /\ twin[TRUE].failed = twin[FALSE].failed
  /\ twin[TRUE].generation_ = twin[FALSE].generation_

C7_Witness ==
  /\ twin[TRUE].failed /\ twin[FALSE].failed
  /\ Len(twin[FALSE].returns) >= 3
  /\ twin[FALSE].returns[Len(twin[FALSE].returns)] = UINT64_MAX

Accessors == {"shadow_storage", "shadow_storage_ref"}
Live_(m) == mixin[m].life = "live"

\* C5: with tracking disabled, shadow_storage() and shadow_storage_ref() of
\* every mixin return null at every point of its lifetime, whatever reference
\* was supplied at construction.
C5_DisabledReturnsNull ==
  ~instrument =>
    /\ \A m \in Mixins :
         Live_(m) => shadow_storage(m) = NULL /\ shadow_storage_ref(m) = NULL
    /\ (op.name \in Accessors => op.ret = NULL)
    /\ \A h \in Handles : handle[h].via = "shadow_storage_ref" => handle[h].ptr = NULL

C5_Witness ==
  /\ ~instrument
  /\ \E m \in Mixins :
       /\ Live_(m) /\ mixin[m].supplied # NULL
       /\ state[mixin[m].supplied] = "alive"
       /\ op.name = "shadow_storage_ref" /\ op.target = m /\ op.ret = NULL

\* C6: with tracking enabled, shadow_storage() and shadow_storage_ref() of a
\* mixin denote the same ShadowStorage, the one supplied at construction (both
\* null exactly when null was supplied), at every point of its lifetime.
C6_EnabledSameObject ==
  instrument =>
    /\ \A m \in Mixins :
         Live_(m) => /\ shadow_storage(m) = shadow_storage_ref(m)
                     /\ shadow_storage(m) = mixin[m].supplied
    /\ (op.name \in Accessors => op.ret = mixin[op.target].supplied)

C6_Witness ==
  /\ instrument
  /\ \E m \in Mixins, n \in Mixins :
       /\ Live_(m) /\ mixin[m].supplied # NULL
       /\ Live_(n) /\ mixin[n].supplied = NULL /\ shadow_storage(n) = NULL
       /\ op.name = "shadow_storage_ref" /\ op.target = m /\ op.ret = mixin[m].supplied

HeldAfter(c) ==
  \/ \E m \in Mixins : mixin'[m].life = "live" /\ mixin'[m].shadow_storage_ = c
  \/ \E h \in Handles : handle'[h].ptr = c

\* C10: with tracking enabled a ShadowStorage is destroyed only when its last
\* holder releases it: no live mixin and no held handle refers to a destroyed
\* ShadowStorage, and a handle from shadow_storage_ref() keeps it alive after
\* the mixin and every other holder are gone.
C10_LifetimeIsLongestHolder ==
  [][instrument =>
       /\ \A m \in Mixins :
            mixin'[m].life = "live" /\ mixin'[m].shadow_storage_ # NULL
              => state'[mixin'[m].shadow_storage_] = "alive"
       /\ \A h \in Handles :
            handle'[h].ptr # NULL => state'[handle'[h].ptr] = "alive"
       /\ \A c \in Shadows :
            /\ (state[c] = "alive" /\ state'[c] = "destroyed" => ~HeldAfter(c))
            /\ (state[c] = "alive" /\ HeldAfter(c) => state'[c] = "alive")]_vars

C10_Witness ==
  /\ instrument
  /\ \A m \in Mixins : ~Live_(m)
  /\ \E m \in Mixins : mixin[m].life = "destroyed"
  /\ \E c \in Shadows, h \in Handles :
       /\ handle[h] = [ptr |-> c, via |-> "shadow_storage_ref"]
       /\ \A i \in Handles : i # h => handle[i] = NoHandle
       /\ state[c] = "alive"
       /\ op.name = "generation" /\ op.target = c /\ op.ret = generation_[c]

MixinOps == {"ShadowStorageMixin", "~ShadowStorageMixin", "shadow_storage", "shadow_storage_ref"}
HandlesOn(c) == {h \in Handles : handle[h].ptr = c}

\* C11: a mixin of the disabled build retains nothing: it holds no share of
\* the supplied ShadowStorage (the object's count is the number of handles
\* outside the mixins, so the mixin never extends its lifetime), and
\* constructing, querying and destroying a mixin changes no generation.
C11_DisabledMixinIsNoOp ==
  [][~instrument =>
       /\ \A m \in Mixins : mixin'[m].shadow_storage_ = NULL
       /\ \A c \in Shadows :
            state'[c] = "alive" =>
              refcount'[c] = Cardinality({h \in Handles : handle'[h].ptr = c})
       /\ \A c \in Shadows :
            state[c] = "alive" /\ state'[c] = "destroyed" =>
              \A h \in Handles : handle'[h].ptr # c
       /\ (op'.name \in MixinOps => generation_' = generation_ /\ fatal' = "none")]_vars

C11_Witness ==
  /\ ~instrument
  /\ op.name = "ShadowStorageMixin"
  /\ \E m \in Mixins :
       /\ op.target = m /\ Live_(m)
       /\ mixin[m].supplied # NULL
       /\ state[mixin[m].supplied] = "destroyed"
       /\ HandlesOn(mixin[m].supplied) = {}

\* C12: generation() is a pure accessor: in every counter state, the maximum
\* included, it returns the current value, does not fail and changes nothing;
\* two calls with no bump in between return the same value. The only failing
\* operations are a bump at the maximum and a Storage operation on a null
\* backing implementation.
C12_GenerationIsPure ==
  [][/\ (op'.name = "generation" =>
           /\ fatal' = "none"
           /\ op'.ret = generation_[op'.target]
           /\ counterVars' = counterVars
           /\ (op.name = "generation" /\ op.target = op'.target => op'.ret = op.ret))
     /\ (fatal' # "none" =>
           \/ /\ fatal' = "generation_overflow"
              /\ op'.name \in BumpOps
              /\ generation_[op'.target] = UINT64_MAX
           \/ /\ fatal' = "storage_impl_null"
              /\ op'.name \in StorageOps
              /\ storage_impl_ = NULL)]_vars

C12_Witness ==
  /\ op.name = "generation"
  /\ op.target \in Shadows
  /\ op.ret = UINT64_MAX
  /\ generation_[op.target] = UINT64_MAX
  /\ bumps[op.target] >= 1
  /\ fatal = "none"

\* C13: with the backing implementation present, a Storage operation called
\* with a simulator invokes the implementation's entry point of the same name
\* exactly once with that simulator; simulate_copy_on_write returns the
\* implementation's result unchanged; neither replaces storage_impl_.
C13_StorageDelegatesOnce ==
  [][\A sim \in Simulators :
       /\ (storage_impl_ # NULL /\ Storage_simulate_copy_on_write(sim) =>
             /\ Len(op'.invoked) = 1
             /\ op'.invoked[1].entry = "StorageImpl::simulate_copy_on_write"
             /\ op'.invoked[1].simulator = sim
             /\ op'.ret = op'.invoked[1].result
             /\ storage_impl_' = storage_impl_)
       /\ (storage_impl_ # NULL /\ Storage_maybe_bump_copy_on_write_generation(sim) =>
             /\ Len(op'.invoked) = 1
             /\ op'.invoked[1].entry = "StorageImpl::maybe_bump_copy_on_write_generation"
             /\ op'.invoked[1].simulator = sim
             /\ storage_impl_' = storage_impl_)]_vars

C13_Witness ==
  /\ storage_impl_ # NULL
  /\ op.name = "simulate_copy_on_write"
  /\ Len(op.invoked) = 1
  /\ op.invoked[1].simulator # NULL
  /\ op.ret = op.invoked[1].result
  /\ op.ret # NULL

\* C14: with the backing implementation present, one
\* maybe_bump_copy_on_write_generation call on the Storage leaves the live
\* generation as it was or advances it by exactly one; after k such calls
\* from a live generation G0 the live generation lies in G0 .. G0 + k.
C14_RequestsBoundLiveGeneration ==
  [][/\ \A sim \in Simulators :
          Storage_maybe_bump_copy_on_write_generation(sim) =>
            /\ generation_'[Live] \in {generation_[Live], generation_[Live] + 1}
            /\ \A c \in Shadows : generation_'[c] = generation_[c]
     /\ (requests' <= MaxRequests =>
           /\ initial'[Live] <= generation_'[Live]
           /\ generation_'[Live] <= initial'[Live] + requests')]_vars

C14_Witness ==
  /\ requests = MaxRequests
  /\ generation_[Live] = initial[Live] + (MaxRequests - 1)
  /\ fatal = "none"

\* C15: a bump rejected at the maximum changes nothing: the assert is
\* evaluated before the increment, so the generation is still the maximum,
\* every other counter and the Storage are as they were, and the call
\* returned no value.
C15_RejectedBumpChangesNothing ==
  [][fatal = "none" /\ fatal' = "generation_overflow" =>
       /\ op'.name \in BumpOps
       /\ op'.ret = NoValue
       /\ generation_[op'.target] = UINT64_MAX
       /\ generation_'[op'.target] = UINT64_MAX
       /\ counterVars' = counterVars
       /\ storage_impl_' = storage_impl_]_vars

C15_Witness ==
  /\ fatal = "generation_overflow"
  /\ op.ret = NoValue
  /\ \E c \in Shadows :
       /\ op.target = c
       /\ bumps[c] >= 1
       /\ generation_[c] = UINT64_MAX
       /\ generation_[c] = initial[c] + bumps[c]

\* The live mixins the object c was supplied to.
BuiltFrom(c) == {m \in Mixins : mixin[m].life = "live" /\ mixin[m].supplied = c}

\* C16: in the enabled build the mixins built from one ShadowStorage alias
\* one counter: shadow_storage() is that object on each of them, and a bump
\* through one is the value generation() reports through every one of them;
\* a bump through a mixin leaves the counter of every other object as it was.
C16_MixinsAliasOneCounter ==
  [][instrument =>
       /\ \A c \in Objects : \A m \in BuiltFrom(c)' : shadow_storage(m)' = c
       /\ \A m \in Mixins :
            mixin_bump_generation(m) =>
              /\ (fatal' = "none" =>
                    \A n \in BuiltFrom(mixin[m].supplied) :
                      generation(TRUE, generation_'[shadow_storage(n)]) = op'.ret)
              /\ \A c \in Objects \ {mixin[m].supplied} : generation_'[c] = generation_[c]
       /\ \A m \in Mixins :
            mixin_generation(m) =>
              \A n \in BuiltFrom(mixin[m].supplied) :
                generation(TRUE, generation_[shadow_storage(n)]) = op'.ret]_vars

C16_Witness ==
  /\ instrument
  /\ op.name = "bump_generation"
  /\ fatal = "none"
  /\ \E c \in Objects, d \in Objects :
       /\ c # d
       /\ Cardinality(BuiltFrom(c)) >= 2
       /\ op.target = c
       /\ op.ret = generation_[c]
       /\ bumps[c] >= 1
       /\ state[d] = "alive"
       /\ generation_[d] = initial[d]

\* The CUDA implementation each registered operation forwards to.
CudaImplementation ==
  [n \in {"c10d::fsdp_all_gather_copy_out", "c10d::unflatten_cat_with_pad"} |->
     IF n = "c10d::fsdp_all_gather_copy_out"
       THEN "fsdpAllGatherCopyOut" ELSE "unflatten_cat_with_pad_cuda"]

\* C17: without CUDA every call of c10d::fsdp_all_gather_copy_out and
\* c10d::unflatten_cat_with_pad, whatever its arguments, ends in
\* NotImplementedError("Not implemented for CPU"), forwards nothing and leaves
\* every tensor as it was; with CUDA each call is forwarded exactly once, with
\* the arguments of the call, to the operation's CUDA implementation.
C17_ShuffleOpsNeedCuda ==
  [][/\ use_cuda' = use_cuda
     /\ (~use_cuda => tensor' = tensor)
     /\ (~use_cuda /\ call' # NoCall =>
           /\ call'.outcome = "NotImplementedError"
           /\ call'.message = "Not implemented for CPU"
           /\ call'.forwarded = <<>>)
     /\ (use_cuda /\ call' # NoCall =>
           /\ Len(call'.forwarded) = 1
           /\ call'.forwarded[1].fn = CudaImplementation[call'.name]
           /\ call'.forwarded[1].args = call'.args)]_vars

C17_Witness ==
  /\ ~use_cuda
  /\ call.name = "c10d::unflatten_cat_with_pad"
  /\ call.outcome = "NotImplementedError"
  /\ call.message = "Not implemented for CPU"
  /\ Len(call.args[1]) >= 1
  /\ call.args[2] # call.args[3]
  /\ tensor[call.args[4]] = 1

====
